---- MODULE Spec2Model ----
(***************************************************************************)
(* A model of arxiv_weekly_radar.py: the seen-ledger, the keyword bucket   *)
(* classifier, the quota allocator ratio_counts, the selector and the two  *)
(* exporters, together with the control flow of main().                    *)
(*                                                                         *)
(* Python strings are modelled as sequences of one-character strings, so   *)
(* that substring tests, splitting, joining and stripping are computed     *)
(* rather than assumed.                                                    *)
(***************************************************************************)
EXTENDS Integers, Sequences, FiniteSets, TLC

VARIABLES
    pc,             \* position of main() / of the function under study
    cfgTotal,       \* the configured total pick count (TOTAL_PICKS)
    cfgRatio,       \* the configured ratio tuple (RATIO)
    quota,          \* result of ratio_counts
    clTable,        \* classifier input: the bucket table
    clText,         \* classifier input: the blob
    clOut,          \* classifier output (best_bucket, best_hits, best_score)
    now,            \* day number of datetime.now()
    runs,           \* number of runs of main() started so far
    nfetched,       \* results consumed from search.results() in this run
    ledgerFile,     \* SEEN_PATH: [exists, text]
    seen,           \* the in-memory set `seen`
    rows,           \* the list `rows`
    picks,          \* the data frame `picks`
    mdFile,         \* MD_PATH: [exists, blocks]
    risFile,        \* RIS_PATH: [exists, lines]
    ledgerAtStart,  \* history: the set load_seen() returned in this run
    fileAtStart,    \* history: SEEN_PATH as it was when this run started
    fetchedItems,   \* history: catalogue entries consumed in this run
    ledgerWrites,   \* history: number of save_seen calls in this run
    shortlisted     \* history: pids of every shortlist so far, in order

vars == <<pc, cfgTotal, cfgRatio, quota, clTable, clText, clOut, now, runs,
          nfetched, ledgerFile, seen, rows, picks, mdFile, risFile,
          ledgerAtStart, fileAtStart, fetchedItems, ledgerWrites, shortlisted>>

-----------------------------------------------------------------------------
(* Bounds of the model *)

MaxTotal == 4
MaxRatio == 1
MaxTextLen == 3
MaxBuckets == 3
MaxFetch == 3
MaxRuns == 2

-----------------------------------------------------------------------------
(* Configuration (lines 26-52) *)

DAYS_BACK == 7
TOTAL_PICKS == 10
RATIO == <<6, 3, 1>>
MIN_HITS_ANY_BUCKET == 2

BUCKETS ==
    << [name |-> <<"P","1","_","w","o","r","l","d","_","m","o","d","e","l","_","v","l","a","_","3","d">>,
        kws |-> << <<"w","o","r","l","d"," ","m","o","d","e","l">>, <<"e","m","b","o","d","i","e","d">>, <<"v","l","a">>, <<"v","i","s","i","o","n","-","l","a","n","g","u","a","g","e","-","a","c","t","i","o","n">>,
                   <<"v","i","s","u","o","m","o","t","o","r">>, <<"p","o","l","i","c","y"," ","l","e","a","r","n","i","n","g">>, <<"s","i","m","2","r","e","a","l">>,
                   <<"3","d"," ","r","e","c","o","n","s","t","r","u","c","t","i","o","n">>, <<"m","u","l","t","i","-","v","i","e","w">>, <<"s","t","r","u","c","t","u","r","e"," ","f","r","o","m"," ","m","o","t","i","o","n">>,
                   <<"s","l","a","m">>, <<"n","e","r","f">>, <<"g","a","u","s","s","i","a","n"," ","s","p","l","a","t","t","i","n","g">>, <<"r","o","b","o","t">>, <<"r","o","b","o","t","i","c","s">> >>],
       [name |-> <<"P","2","_","g","e","n","e","r","a","t","i","v","e","_","a","i">>,
        kws |-> << <<"d","i","f","f","u","s","i","o","n">>, <<"g","e","n","e","r","a","t","i","v","e"," ","m","o","d","e","l">>, <<"f","o","u","n","d","a","t","i","o","n"," ","m","o","d","e","l">>,
                   <<"v","i","d","e","o"," ","g","e","n","e","r","a","t","i","o","n">>, <<"m","u","l","t","i","m","o","d","a","l">>, <<"t","r","a","n","s","f","o","r","m","e","r">> >>],
       [name |-> <<"P","3","_","2","d","_","c","v">>,
        kws |-> << <<"o","b","j","e","c","t"," ","d","e","t","e","c","t","i","o","n">>, <<"s","e","g","m","e","n","t","a","t","i","o","n">>,
                   <<"m","u","l","t","i","-","o","b","j","e","c","t"," ","t","r","a","c","k","i","n","g">>, <<"m","o","t">>,
                   <<"r","e","i","d">>, <<"a","s","s","o","c","i","a","t","i","o","n">>, <<"i","d"," ","s","w","i","t","c","h">> >>] >>

-----------------------------------------------------------------------------
(* Python string primitives *)

Whitespace == {" ", "\n", "\t"}

UpperCase == <<"A","B","C","D","E","F","G","H","I","J","K","L","M","N","O","P","Q","R","S","T","U","V","W","X","Y","Z">>
LowerCase == <<"a","b","c","d","e","f","g","h","i","j","k","l","m","n","o","p","q","r","s","t","u","v","w","x","y","z">>

\* str.lower() on one character
LowerChar(c) ==
    IF \E i \in 1..Len(UpperCase) : UpperCase[i] = c
    THEN LowerCase[CHOOSE i \in 1..Len(UpperCase) : UpperCase[i] = c]
    ELSE c

Lower(s) == [i \in 1..Len(s) |-> LowerChar(s[i])]

\* str.lstrip(), str.rstrip(), str.strip()
RECURSIVE LStrip(_)
LStrip(s) ==
    IF s = <<>> THEN <<>>
    ELSE IF Head(s) \in Whitespace THEN LStrip(Tail(s)) ELSE s

RECURSIVE RStrip(_)
RStrip(s) ==
    IF s = <<>> THEN <<>>
    ELSE IF s[Len(s)] \in Whitespace THEN RStrip(SubSeq(s, 1, Len(s) - 1)) ELSE s

Strip(s) == RStrip(LStrip(s))

\* re.sub(r"\s+", " ", s)
RECURSIVE CollapseWs(_)
CollapseWs(s) ==
    IF s = <<>> THEN <<>>
    ELSE IF Head(s) \in Whitespace
         THEN <<" ">> \o CollapseWs(LStrip(s))
         ELSE <<Head(s)>> \o CollapseWs(Tail(s))

\* the Python operator `kw in t` on strings
Contains(kw, t) ==
    \E i \in 0..(Len(t) - Len(kw)) : SubSeq(t, i + 1, i + Len(kw)) = kw

\* str.startswith(prefix)
StartsWith(s, prefix) ==
    Len(s) >= Len(prefix) /\ SubSeq(s, 1, Len(prefix)) = prefix

\* str.replace(old, new) for a one-character old
Replace(s, old, new) == [i \in 1..Len(s) |-> IF s[i] = old THEN new ELSE s[i]]

\* str.split(sep) for a one-character sep: always at least one piece
RECURSIVE Split(_, _)
Split(s, sep) ==
    IF \A i \in 1..Len(s) : s[i] # sep THEN <<s>>
    ELSE LET k == CHOOSE i \in 1..Len(s) :
                      s[i] = sep /\ \A j \in 1..(i - 1) : s[j] # sep
         IN  <<SubSeq(s, 1, k - 1)>> \o Split(SubSeq(s, k + 1, Len(s)), sep)

\* sep.join(parts)
RECURSIVE Join(_, _)
Join(sep, parts) ==
    IF parts = <<>> THEN <<>>
    ELSE IF Len(parts) = 1 THEN parts[1]
    ELSE parts[1] \o sep \o Join(sep, Tail(parts))

\* str.splitlines(): no piece for an empty string or after a final newline
SplitLines(s) ==
    IF s = <<>> THEN <<>>
    ELSE LET ps == Split(s, "\n")
         IN  IF ps[Len(ps)] = <<>> THEN SubSeq(ps, 1, Len(ps) - 1) ELSE ps

\* the order of Python str comparison, over the characters that occur in ids
CharOrder == <<"\n"," ",",","-",".","/","0","1","2","3","4","5","6","7","8","9","A","B","C","D","E","F","G","H","I","J","K","L","M","N","O","P","Q","R","S","T","U","V","W","X","Y","Z","a","b","c","d","e","f","g","h","i","j","k","l","m","n","o","p","q","r","s","t","u","v","w","x","y","z">>

Ord(c) == CHOOSE i \in 1..Len(CharOrder) : CharOrder[i] = c

RECURSIVE StrLess(_, _)
StrLess(s, t) ==
    IF t = <<>> THEN FALSE
    ELSE IF s = <<>> THEN TRUE
    ELSE IF Head(s) = Head(t) THEN StrLess(Tail(s), Tail(t))
    ELSE Ord(Head(s)) < Ord(Head(t))

\* sorted(set of str)
RECURSIVE Sorted(_)
Sorted(S) ==
    IF S = {} THEN <<>>
    ELSE LET m == CHOOSE x \in S : \A y \in S \ {x} : StrLess(x, y)
         IN  <<m>> \o Sorted(S \ {m})

SeqToSet(s) == {s[i] : i \in 1..Len(s)}

-----------------------------------------------------------------------------
(* norm, count_hits (lines 58-77) *)

norm(s) == Lower(Strip(CollapseWs(s)))

\* returns <<hits, score>>
count_hits(text, keywords) ==
    LET t == norm(text)
        n == Cardinality({i \in 1..Len(keywords) : Contains(keywords[i], t)})
    IN  <<n, n>>

-----------------------------------------------------------------------------
(* The classifier loop of main (lines 126-135) *)

\* Python None as a bucket name: no string of characters equals it
NoBucket == <<"None">>

InitialBestScoreZero == 0
InitialBestScore == -1

BetterOrEqual(sc, best_score) == sc >= best_score
Better(sc, best_score) == sc > best_score

RECURSIVE BestOf(_, _, _)
BestOf(blob, table, best) ==
    IF table = <<>> THEN best
    ELSE LET hs == count_hits(blob, Head(table).kws)
         IN  BestOf(blob, Tail(table),
                    IF Better(hs[2], best.score)
                    THEN [bucket |-> Head(table).name, hits |-> hs[1], score |-> hs[2]]
                    ELSE best)

Classify(blob, table) ==
    BestOf(blob, table, [bucket |-> NoBucket, hits |-> 0, score |-> InitialBestScore])

-----------------------------------------------------------------------------
(* ratio_counts (lines 79-85) *)

\* int(round(n / d)) for n >= 0, d > 0: Python 3 rounds exact halves to even
RoundHalfUp(n, d) ==
    LET q == n \div d
        r == n % d
    IN  IF 2 * r < d THEN q ELSE q + 1
PyRound(n, d) ==
    LET q == n \div d
        r == n % d
    IN  IF 2 * r < d THEN q
        ELSE IF 2 * r > d THEN q + 1
        ELSE IF q % 2 = 0 THEN q ELSE q + 1

\* [raised |-> TRUE] stands for ZeroDivisionError
ratio_counts(total, ratio) ==
    LET a == ratio[1]
        b == ratio[2]
        c == ratio[3]
        s == a + b + c
    IN  IF s = 0 THEN [raised |-> TRUE, q |-> <<0, 0, 0>>]
        ELSE LET x == PyRound(total * a, s)
                 y == PyRound(total * b, s)
                 z == total - x - y
             IN  [raised |-> FALSE, q |-> <<x, y, z>>]

NoQuota == [raised |-> FALSE, q |-> <<0, 0, 0>>]

-----------------------------------------------------------------------------
(* load_seen, save_seen (lines 61-67) *)

NoFile == [exists |-> FALSE, text |-> <<>>]

load_seen(file) ==
    IF ~file.exists THEN {} ELSE SeqToSet(SplitLines(file.text))

save_seen(s) == [exists |-> TRUE, text |-> Join(<<"\n">>, Sorted(s))]

-----------------------------------------------------------------------------
(* What search.results() can yield: records of the remote catalogue.       *)
(* published is a day number; entry_id is the URL of the record.           *)

Catalog ==
    << [short_id |-> <<"1","v","1">>, entry_id |-> <<"u","/","1","v","1">>, published |-> DAYS_BACK - 1,
        title |-> <<"R","o","b","o","t"," ","S","L","A","M">>, summary |-> <<" ","w","i","t","h"," ","a"," ","d","i","f","f","u","s","i","o","n","\n","T","r","a","n","s","f","o","r","m","e","r"," ">>,
        authors |-> << <<"A"," ","B">> >>],
       [short_id |-> <<"1","v","2">>, entry_id |-> <<"u","/","1","v","2">>, published |-> DAYS_BACK - 1,
        title |-> <<"R","o","b","o","t","i","c","s","\n","S","L","A","M"," "," ","N","e","R","F">>, summary |-> <<>>,
        authors |-> << <<"A"," ","B">>, <<"C"," ","D">> >>],
       [short_id |-> <<"2","v","1">>, entry_id |-> <<"u","/","2","v","1">>, published |-> DAYS_BACK - 2,
        title |-> <<"D","i","f","f","u","s","i","o","n"," ","T","r","a","n","s","f","o","r","m","e","r">>, summary |-> <<"t","e","x","t">>,
        authors |-> << >>],
       [short_id |-> <<"3","v","1">>, entry_id |-> <<"u","/","3","v","1">>, published |-> DAYS_BACK - 2,
        title |-> <<"R","e","m","o","t","e"," ","s","e","g","m","e","n","t","a","t","i","o","n">>, summary |-> <<>>,
        authors |-> << <<"E"," ","F">>, <<"G">> >>],
       [short_id |-> <<"4","v","3">>, entry_id |-> <<"u","/","4","v","3">>, published |-> DAYS_BACK - 1,
        title |-> <<"S","e","g","m","e","n","t","a","t","i","o","n">>, summary |-> <<"R","e","I","D">>,
        authors |-> << <<"H">> >>],
       [short_id |-> <<"5","v","1">>, entry_id |-> <<"u","/","5","v","1">>, published |-> DAYS_BACK - 1,
        title |-> <<"A"," ","r","o","b","o","t"," ","u","s","e","s"," ","a"," ","d","i","f","f","u","s","i","o","n"," ","m","o","d","e","l">>, summary |-> <<>>,
        authors |-> << <<"I">> >>],
       [short_id |-> <<"6","v","1">>, entry_id |-> <<"u","/","6","v","1">>, published |-> 1,
        title |-> <<"W","o","r","l","d"," ","m","o","d","e","l">>, summary |-> <<"e","m","b","o","d","i","e","d">>,
        authors |-> << <<"J">> >>] >>

\* datetime.now() of a run, as a day number
NowValues == {DAYS_BACK + 1, DAYS_BACK + 2}

-----------------------------------------------------------------------------
(* One iteration of the fetch/classify loop (lines 113-152) *)

AlreadySeenNever(pid, s) == FALSE
AlreadySeen(pid, s) == pid \in s

BelowOrAtThreshold(hits) == hits <= MIN_HITS_ANY_BUCKET
BelowThreshold(hits) == hits < MIN_HITS_ANY_BUCKET

\* res.get_short_id().split("v")[0]
PidOf(res) == Split(res.short_id, "v")[1]

TitleOf(res) == Strip(Replace(res.title, "\n", " "))

AbstractOf(res) == Strip(res.summary)

BlobOf(res) == TitleOf(res) \o <<"\n">> \o AbstractOf(res)

RowOf(res, best) ==
    [pid |-> PidOf(res),
     title |-> TitleOf(res),
     authors |-> Join(<<","," ">>, res.authors),
     published |-> res.published,
     url |-> res.entry_id,
     bucket |-> best.bucket,
     score |-> best.score,
     abstract |-> AbstractOf(res)]

\* lines 118-135 applied to each record of the catalogue, computed once
Classified == [i \in 1..Len(Catalog) |-> Classify(BlobOf(Catalog[i]), BUCKETS)]

CatalogRows == [i \in 1..Len(Catalog) |-> RowOf(Catalog[i], Classified[i])]

-----------------------------------------------------------------------------
(* The selector (lines 160-168) *)

RowBefore(r1, r2) ==
    \/ r1.score > r2.score
    \/ r1.score = r2.score /\ r1.published > r2.published

\* sort_values(["score", "published"], ascending=[False, False]); rows with
\* equal keys keep their order
RECURSIVE SortRows(_)
SortRows(rs) ==
    IF rs = <<>> THEN <<>>
    ELSE LET k == CHOOSE i \in 1..Len(rs) :
                      /\ \A j \in 1..Len(rs) : ~RowBefore(rs[j], rs[i])
                      /\ \A j \in 1..(i - 1) : RowBefore(rs[i], rs[j])
         IN  <<rs[k]>> \o SortRows(SubSeq(rs, 1, k - 1) \o SubSeq(rs, k + 1, Len(rs)))

\* df[df["bucket"].str.startswith(prefix)]
RECURSIVE FilterBucket(_, _)
FilterBucket(df, prefix) ==
    IF df = <<>> THEN <<>>
    ELSE IF StartsWith(Head(df).bucket, prefix)
         THEN <<Head(df)>> \o FilterBucket(Tail(df), prefix)
         ELSE FilterBucket(Tail(df), prefix)

\* DataFrame.head(n): the first n rows, or all but the last -n rows if n < 0
DfHead(df, n) ==
    IF n >= 0
    THEN SubSeq(df, 1, IF n < Len(df) THEN n ELSE Len(df))
    ELSE SubSeq(df, 1, IF Len(df) + n > 0 THEN Len(df) + n ELSE 0)

SelectPicks(rs, total, q) ==
    LET df == SortRows(rs)
        p1 == DfHead(FilterBucket(df, <<"P","1">>), q[1])
        p2 == DfHead(FilterBucket(df, <<"P","2">>), q[2])
        p3 == DfHead(FilterBucket(df, <<"P","3">>), q[3])
    IN  DfHead(p1 \o p2 \o p3, total)

-----------------------------------------------------------------------------
(* The exporters (lines 170-191) *)

AbstractBudget == 300

MdBlock(r) ==
    [pid |-> r.pid, url |-> r.url, title |-> r.title, authors |-> r.authors,
     abstract |-> SubSeq(r.abstract, 1,
                         IF Len(r.abstract) < AbstractBudget
                         THEN Len(r.abstract) ELSE AbstractBudget) \o <<".",".",".">>]

MdText(day, ps) ==
    [exists |-> TRUE, day |-> day, blocks |-> [i \in 1..Len(ps) |-> MdBlock(ps[i])]]

AuLines(r) ==
    LET parts == Split(r.authors, ",")
    IN  [i \in 1..Len(parts) |-> <<"AU", Strip(parts[i])>>]

RisRecord(r) ==
    << <<"TY", <<"J","O","U","R">>>>, <<"TI", r.title>> >> \o AuLines(r)
       \o << <<"UR", r.url>>, <<"ER", <<>> >>, <<"", <<>> >> >>

RECURSIVE RisLines(_)
RisLines(ps) ==
    IF ps = <<>> THEN <<>> ELSE RisRecord(Head(ps)) \o RisLines(Tail(ps))

NoOutput == [exists |-> FALSE]

-----------------------------------------------------------------------------
(* main(), one action per step between two observable effects *)

Finished == {"idle", "done", "nonew", "aborted", "crashed"}

\* lines 93-111: a new run starts; the clock never goes back
StartRun ==
    /\ pc \in Finished
    /\ runs < MaxRuns
    /\ \E d \in NowValues : d >= now /\ now' = d
    /\ runs' = runs + 1
    /\ seen' = load_seen(ledgerFile)
    /\ ledgerAtStart' = load_seen(ledgerFile)
    /\ fileAtStart' = ledgerFile
    /\ rows' = <<>>
    /\ picks' = <<>>
    /\ nfetched' = 0
    /\ fetchedItems' = {}
    /\ ledgerWrites' = 0
    /\ pc' = "loop"
    /\ UNCHANGED <<cfgTotal, cfgRatio, quota, clTable, clText, clOut,
                   ledgerFile, mdFile, risFile, shortlisted>>

\* lines 113-152: the generator yields one more result
FetchItem ==
    /\ pc = "loop"
    /\ nfetched < MaxFetch
    /\ \E i \in 1..Len(Catalog) :
         LET res == Catalog[i]
             since == now - DAYS_BACK
             row == CatalogRows[i]
             pid == row.pid
             best == Classified[i]
             skip == \/ res.published < since
                     \/ AlreadySeen(pid, seen)
                     \/ BelowThreshold(best.hits)
         IN  /\ fetchedItems' = fetchedItems \cup {i}
             /\ rows' = IF skip THEN rows ELSE Append(rows, row)
             /\ seen' = IF skip THEN seen ELSE seen \cup {pid}
    /\ nfetched' = nfetched + 1
    /\ UNCHANGED <<pc, cfgTotal, cfgRatio, quota, clTable, clText, clOut, now,
                   runs, ledgerFile, picks, mdFile, risFile, ledgerAtStart,
                   fileAtStart, ledgerWrites, shortlisted>>

\* line 113: the generator raises; the exception leaves main()
FetchRaisesSaving ==
    /\ pc = "loop"
    /\ pc' = "aborted"
    /\ ledgerFile' = save_seen(seen)
    /\ ledgerWrites' = ledgerWrites + 1
    /\ UNCHANGED <<cfgTotal, cfgRatio, quota, clTable, clText, clOut, now, runs,
                   nfetched, seen, rows, picks, mdFile, risFile,
                   ledgerAtStart, fileAtStart, fetchedItems, shortlisted>>
FetchRaises ==
    /\ pc = "loop"
    /\ pc' = "aborted"
    /\ UNCHANGED <<cfgTotal, cfgRatio, quota, clTable, clText, clOut, now, runs,
                   nfetched, ledgerFile, seen, rows, picks, mdFile, risFile,
                   ledgerAtStart, fileAtStart, fetchedItems, ledgerWrites,
                   shortlisted>>

\* line 154: the generator is exhausted and the ledger is written
SaveSeen ==
    /\ pc = "loop"
    /\ ledgerFile' = save_seen(seen)
    /\ ledgerWrites' = ledgerWrites + 1
    /\ pc' = "saved"
    /\ UNCHANGED <<cfgTotal, cfgRatio, quota, clTable, clText, clOut, now, runs,
                   nfetched, seen, rows, picks, mdFile, risFile,
                   ledgerAtStart, fileAtStart, fetchedItems, shortlisted>>

\* lines 156-158
NoNewPapers ==
    /\ pc = "saved"
    /\ rows = <<>>
    /\ pc' = "nonew"
    /\ UNCHANGED <<cfgTotal, cfgRatio, quota, clTable, clText, clOut, now, runs,
                   nfetched, ledgerFile, seen, rows, picks, mdFile, risFile,
                   ledgerAtStart, fileAtStart, fetchedItems, ledgerWrites,
                   shortlisted>>

\* lines 160-168; a ZeroDivisionError in ratio_counts leaves main()
Select ==
    /\ pc = "saved"
    /\ rows # <<>>
    /\ LET rc == ratio_counts(cfgTotal, cfgRatio)
           ps == SelectPicks(rows, cfgTotal, rc.q)
       IN  /\ quota' = rc
           /\ pc' = IF rc.raised THEN "crashed" ELSE "selected"
           /\ picks' = IF rc.raised THEN picks ELSE ps
           /\ shortlisted' = IF rc.raised THEN shortlisted
                             ELSE shortlisted \o [i \in 1..Len(ps) |-> ps[i].pid]
    /\ UNCHANGED <<cfgTotal, cfgRatio, clTable, clText, clOut, now, runs,
                   nfetched, ledgerFile, seen, rows, mdFile, risFile,
                   ledgerAtStart, fileAtStart, fetchedItems, ledgerWrites>>

\* lines 170-178
WriteMd ==
    /\ pc = "selected"
    /\ mdFile' = MdText(now, picks)
    /\ pc' = "md_written"
    /\ UNCHANGED <<cfgTotal, cfgRatio, quota, clTable, clText, clOut, now, runs,
                   nfetched, ledgerFile, seen, rows, picks, risFile,
                   ledgerAtStart, fileAtStart, fetchedItems, ledgerWrites,
                   shortlisted>>

\* lines 180-194
WriteRis ==
    /\ pc = "md_written"
    /\ risFile' = [exists |-> TRUE, lines |-> RisLines(picks)]
    /\ pc' = "done"
    /\ UNCHANGED <<cfgTotal, cfgRatio, quota, clTable, clText, clOut, now, runs,
                   nfetched, ledgerFile, seen, rows, picks, mdFile,
                   ledgerAtStart, fileAtStart, fetchedItems, ledgerWrites,
                   shortlisted>>

Idle ==
    /\ now = DAYS_BACK + 1
    /\ runs = 0
    /\ nfetched = 0
    /\ ledgerFile = NoFile
    /\ seen = {}
    /\ rows = <<>>
    /\ picks = <<>>
    /\ mdFile = NoOutput
    /\ risFile = NoOutput
    /\ ledgerAtStart = {}
    /\ fileAtStart = NoFile
    /\ fetchedItems = {}
    /\ ledgerWrites = 0
    /\ shortlisted = <<>>

NoCall ==
    /\ quota = NoQuota
    /\ clTable = <<>>
    /\ clText = <<>>
    /\ clOut = Classify(<<>>, <<>>)

\* the program as shipped: first run, no ledger file yet
Init ==
    /\ pc = "idle"
    /\ cfgTotal = TOTAL_PICKS
    /\ cfgRatio = RATIO
    /\ Idle
    /\ NoCall

Next ==
    \/ StartRun
    \/ FetchItem
    \/ FetchRaises
    \/ SaveSeen
    \/ NoNewPapers
    \/ Select
    \/ WriteMd
    \/ WriteRis

Spec == Init /\ [][Next]_vars

\* the program under any small configuration of total picks and ratio
Ratios == {<<a, b, c>> : a \in 0..MaxRatio, b \in 0..MaxRatio, c \in 0..MaxRatio}

InitConfig ==
    /\ pc = "idle"
    /\ cfgTotal \in 0..MaxTotal
    /\ cfgRatio \in Ratios
    /\ Idle
    /\ NoCall

SpecConfig == InitConfig /\ [][Next]_vars

-----------------------------------------------------------------------------
(* ratio_counts on its own *)

InitRatio ==
    /\ pc = "ratio_call"
    /\ cfgTotal \in (0..MaxTotal) \cup {TOTAL_PICKS}
    /\ cfgRatio \in Ratios \cup {RATIO}
    /\ Idle
    /\ NoCall

CallRatioCounts ==
    /\ pc = "ratio_call"
    /\ quota' = ratio_counts(cfgTotal, cfgRatio)
    /\ pc' = "ratio_ret"
    /\ UNCHANGED <<cfgTotal, cfgRatio, clTable, clText, clOut, now, runs,
                   nfetched, ledgerFile, seen, rows, picks, mdFile, risFile,
                   ledgerAtStart, fileAtStart, fetchedItems, ledgerWrites,
                   shortlisted>>

NextRatio == CallRatioCounts

SpecRatio == InitRatio /\ [][NextRatio]_vars

-----------------------------------------------------------------------------
(* the classifier on its own, over small texts and bucket tables *)

Alphabet == {"a", "B", " "}

RECURSIVE SeqsUpTo(_, _)
SeqsUpTo(S, n) ==
    IF n = 0 THEN {<<>>}
    ELSE LET shorter == SeqsUpTo(S, n - 1)
         IN  shorter \cup {Append(s, x) : s \in shorter, x \in S}

ExampleText == <<"A"," ","r","o","b","o","t"," ","u","s","e","s"," ","a"," ","d","i","f","f","u","s","i","o","n"," ","m","o","d","e","l">>

Texts == SeqsUpTo(Alphabet, MaxTextLen) \cup {ExampleText}

KeywordLists ==
    { << <<"a">> >>, << <<"b">> >>, << <<"a">>, <<"b">> >>, << <<"a","b">>, <<"a"," ","b">> >> }

BucketNames == << <<"A">>, <<"B">>, <<"C">>, <<"D">>, <<"E">>, <<"F">> >>

TableOf(lists) == [i \in 1..Len(lists) |-> [name |-> BucketNames[i], kws |-> lists[i]]]

ExampleTable == TableOf(<< << <<"r","o","b","o","t">> >>, << <<"d","i","f","f","u","s","i","o","n">> >> >>)

\* tables with at least one bucket; every keyword list is non-empty
Tables ==
    {TableOf(ls) : ls \in SeqsUpTo(KeywordLists, MaxBuckets) \ {<<>>}} \cup {ExampleTable}

InitClassify ==
    /\ pc = "classify_call"
    /\ clTable \in Tables
    /\ clText \in Texts
    /\ clOut = Classify(<<>>, <<>>)
    /\ quota = NoQuota
    /\ cfgTotal = TOTAL_PICKS
    /\ cfgRatio = RATIO
    /\ Idle

CallClassify ==
    /\ pc = "classify_call"
    /\ clOut' = Classify(clText, clTable)
    /\ pc' = "classify_ret"
    /\ UNCHANGED <<cfgTotal, cfgRatio, quota, clTable, clText, now, runs,
                   nfetched, ledgerFile, seen, rows, picks, mdFile, risFile,
                   ledgerAtStart, fileAtStart, fetchedItems, ledgerWrites,
                   shortlisted>>

NextClassify == CallClassify

SpecClassify == InitClassify /\ [][NextClassify]_vars

-----------------------------------------------------------------------------
(* Properties *)

Sum3(q) == q[1] + q[2] + q[3]

\* C1: for every total T >= 0 and every ratio of non-negative integers,
\* ratio_counts returns (x,y,z) with x+y+z = T and x, y, z >= 0, also when
\* the first two roundings overshoot T and for the all-zero ratio.
C1_QuotasSumToTotalNonNegative ==
    pc = "ratio_ret" =>
        /\ ~quota.raised
        /\ Sum3(quota.q) = cfgTotal
        /\ \A k \in 1..3 : quota.q[k] >= 0

\* x is n/d rounded to the nearest integer, exact halves away from zero
IsNearestHalfAway(x, n, d) ==
    /\ 2 * n - d < 2 * x * d
    /\ 2 * x * d <= 2 * n + d

\* x is n/d rounded to the nearest integer, exact halves to the even neighbour
IsNearestHalfEven(x, n, d) ==
    /\ 2 * n - d <= 2 * x * d
    /\ 2 * x * d <= 2 * n + d
    /\ (2 * x * d = 2 * n - d \/ 2 * x * d = 2 * n + d) => x % 2 = 0

RatioSum == cfgRatio[1] + cfgRatio[2] + cfgRatio[3]

\* C7 as stated: with a+b+c > 0, x and y are T*a/(a+b+c) and T*b/(a+b+c)
\* rounded to nearest with exact halves away from zero, and z = T - x - y.
C7_RoundsHalvesAwayFromZero ==
    (pc = "ratio_ret" /\ RatioSum > 0) =>
        /\ ~quota.raised
        /\ IsNearestHalfAway(quota.q[1], cfgTotal * cfgRatio[1], RatioSum)
        /\ IsNearestHalfAway(quota.q[2], cfgTotal * cfgRatio[2], RatioSum)
        /\ quota.q[3] = cfgTotal - quota.q[1] - quota.q[2]

\* C7 amended: with a+b+c > 0, x and y are T*a/(a+b+c) and T*b/(a+b+c)
\* rounded to nearest with exact halves to the even neighbour, z = T - x - y;
\* (10,(6,3,1)) gives (6,3,1) and (10,(1,1,1)) gives (3,3,4).
C7_RoundsHalvesToEven ==
    (pc = "ratio_ret" /\ RatioSum > 0) =>
        /\ ~quota.raised
        /\ IsNearestHalfEven(quota.q[1], cfgTotal * cfgRatio[1], RatioSum)
        /\ IsNearestHalfEven(quota.q[2], cfgTotal * cfgRatio[2], RatioSum)
        /\ quota.q[3] = cfgTotal - quota.q[1] - quota.q[2]
        /\ (cfgTotal = 10 /\ cfgRatio = <<6, 3, 1>>) => quota.q = <<6, 3, 1>>
        /\ (cfgTotal = 10 /\ cfgRatio = <<1, 1, 1>>) => quota.q = <<3, 3, 4>>

\* an exact half whose two neighbours are 0 and 1: the code returns 0
C7_Witness ==
    /\ pc = "ratio_ret"
    /\ cfgTotal = 1
    /\ cfgRatio = <<1, 1, 0>>
    /\ quota.q = <<0, 0, 1>>

HitsOf(k) == count_hits(clText, clTable[k].kws)[1]

\* C5: the classifier assigns the bucket with the maximum hit count, and on
\* a tie for the maximum the first such bucket in declaration order; the
\* table {A:[robot], B:[diffusion]} with 'A robot uses a diffusion model'
\* resolves to A.
C5_MaxHitsFirstOnTie ==
    pc = "classify_ret" =>
        /\ \E k \in 1..Len(clTable) :
             /\ clOut.bucket = clTable[k].name
             /\ clOut.hits = HitsOf(k)
             /\ \A j \in 1..Len(clTable) : HitsOf(j) <= HitsOf(k)
             /\ \A j \in 1..(k - 1) : HitsOf(j) < HitsOf(k)
        /\ (clTable = ExampleTable /\ clText = ExampleText) => clOut.bucket = <<"A">>

\* three buckets, the last two tie for the maximum above the first
C5_Witness ==
    /\ pc = "classify_ret"
    /\ Len(clTable) = 3
    /\ HitsOf(1) < HitsOf(2)
    /\ HitsOf(2) = HitsOf(3)
    /\ clOut.bucket = clTable[2].name

NamesOf(table) == {table[k].name : k \in 1..Len(table)}

\* C6 as stated: the bucket is one of the configured names and never a
\* bucket whose hit count on the text is 0.
C6_NeverAZeroHitBucket ==
    pc = "classify_ret" =>
        /\ clOut.bucket \in NamesOf(clTable)
        /\ \A k \in 1..Len(clTable) :
             clOut.bucket = clTable[k].name => HitsOf(k) # 0

\* C6 amended: the bucket is one of the configured names; its hit count is
\* 0 exactly when the text matches no keyword of any bucket, and then it is
\* the first bucket of the table.
C6_ZeroHitsOnlyWhenNothingMatches ==
    pc = "classify_ret" =>
        /\ clOut.bucket \in NamesOf(clTable)
        /\ \A k \in 1..Len(clTable) :
             (clOut.bucket = clTable[k].name /\ HitsOf(k) = 0) =>
                 /\ k = 1
                 /\ \A j \in 1..Len(clTable) : HitsOf(j) = 0
        /\ (\A j \in 1..Len(clTable) : HitsOf(j) = 0) =>
               (clOut.bucket = clTable[1].name /\ clOut.hits = 0)

C6_Witness ==
    /\ pc = "classify_ret"
    /\ Len(clTable) >= 2
    /\ clText # <<>>
    /\ \A j \in 1..Len(clTable) : HitsOf(j) = 0
    /\ clOut.bucket = clTable[1].name

NoRepeat(s) == \A i, j \in 1..Len(s) : i # j => s[i] # s[j]

PidsOf(rs) == [i \in 1..Len(rs) |-> rs[i].pid]

\* C2: over the runs sharing the ledger file each identifier is shortlisted
\* at most once; no two items of one run's pool or shortlist share an
\* identifier; an identifier in the ledger loaded at the start of a run is
\* never in that run's pool or shortlist.
C2_NoIdentifierTwice ==
    /\ NoRepeat(shortlisted)
    /\ NoRepeat(PidsOf(rows))
    /\ NoRepeat(PidsOf(picks))
    /\ \A i \in 1..Len(rows) : rows[i].pid \notin ledgerAtStart
    /\ \A i \in 1..Len(picks) : picks[i].pid \notin ledgerAtStart

\* second run: the ledger holds pid 2 from the first; the fetch yields 2v1
\* again and both versions of paper 1, the second scoring higher
C2_Witness ==
    /\ runs = 2
    /\ pc = "done"
    /\ ledgerAtStart = {<<"2">>}
    /\ fetchedItems = {1, 2, 3}
    /\ shortlisted = << <<"2">>, <<"1">> >>
    /\ Classified[2].score > Classified[1].score

\* C3: if the fetch raises during the loop the run aborts, save_seen is not
\* executed and the ledger file is exactly what it was before the run, so
\* no identifier added in memory during the run is persisted.
C3_AbortLeavesLedgerUntouched ==
    pc = "aborted" =>
        /\ ledgerWrites = 0
        /\ ledgerFile = fileAtStart
        /\ load_seen(ledgerFile) = ledgerAtStart

C3_Witness ==
    /\ pc = "aborted"
    /\ runs = 2
    /\ ledgerAtStart # {}
    /\ seen # ledgerAtStart

\* C4: the ledger file is written exactly once per run and only as the last
\* step, after selection and after the digest and the bibliographic output
\* have been written.
C4_LedgerWrittenLast ==
    /\ ledgerWrites <= 1
    /\ ledgerWrites = 1 => pc = "done"
    /\ pc = "done" => ledgerWrites = 1

EntryOf(url) == Catalog[CHOOSE i \in 1..Len(Catalog) : Catalog[i].entry_id = url]

\* number of AU lines between each TI line and the next UR line
RECURSIVE AuCounts(_, _)
AuCounts(lines, n) ==
    IF lines = <<>> THEN <<>>
    ELSE LET tag == Head(lines)[1]
         IN  IF tag = "TI" THEN AuCounts(Tail(lines), 0)
             ELSE IF tag = "AU" THEN AuCounts(Tail(lines), n + 1)
             ELSE IF tag = "UR" THEN <<n>> \o AuCounts(Tail(lines), 0)
             ELSE AuCounts(Tail(lines), n)

\* C8: for every shortlisted item the bibliographic export has exactly one
\* AU line per author between its TI and UR lines, none for an item whose
\* author list is empty.
C8_OneAuLinePerAuthor ==
    pc = "done" =>
        AuCounts(risFile.lines, 0) =
            [i \in 1..Len(picks) |-> Len(EntryOf(picks[i].url).authors)]

Min2(a, b) == IF a < b THEN a ELSE b

Selected == pc \in {"selected", "md_written", "done"}

BucketPrefixes == << <<"P","1">>, <<"P","2">>, <<"P","3">> >>

InBucket(k) == FilterBucket(SortRows(rows), BucketPrefixes[k])

TopOf(k) == SubSeq(InBucket(k), 1, Min2(quota.q[k], Len(InBucket(k))))

\* C9: for every total and ratio the shortlist is, bucket by bucket in P1,
\* P2, P3 order, exactly the first min(quota, pooled items of the bucket)
\* items of the bucket in (score, publication time) descending order: no
\* backfill, no bucket above its quota, at most `total` items.
C9_TopOfEachBucketNoBackfill ==
    Selected =>
        /\ picks = TopOf(1) \o TopOf(2) \o TopOf(3)
        /\ \A k \in 1..3 :
             Len(FilterBucket(picks, BucketPrefixes[k])) <= quota.q[k]
        /\ Len(picks) <= cfgTotal

MaxHitsOf(i) ==
    LET hs == {count_hits(BlobOf(Catalog[i]), BUCKETS[k].kws)[1] : k \in 1..Len(BUCKETS)}
    IN  CHOOSE h \in hs : \A g \in hs : g <= h

\* the hit counts of the catalogue, computed once
CatalogMaxHits == [i \in 1..Len(Catalog) |-> MaxHitsOf(i)]

Qualifies(i) ==
    /\ Catalog[i].published >= now - DAYS_BACK
    /\ PidOf(Catalog[i]) \notin ledgerAtStart
    /\ CatalogMaxHits[i] >= MIN_HITS_ANY_BUCKET

LoopCompleted == pc \in {"saved", "nonew", "selected", "md_written", "done"}

\* C10: once the fetch/classify loop of a run has completed, the ledger file
\* holds the ledger loaded at the start plus the identifiers of exactly the
\* fetched items that were recent, not already seen and at or above the
\* minimum hits, shortlisted or not; the ledger never loses an identifier.
C10_LedgerIsStartPlusQualified ==
    /\ ledgerAtStart \subseteq load_seen(ledgerFile)
    /\ LoopCompleted =>
          /\ ledgerFile.exists
          /\ load_seen(ledgerFile) =
                 ledgerAtStart \cup {PidOf(Catalog[i]) : i \in {j \in fetchedItems : Qualifies(j)}}

\* second run: two P3 items are pooled and only one shortlisted, a third
\* fetched item is below the threshold and stays out of the ledger
C10_Witness ==
    /\ pc = "done"
    /\ runs = 2
    /\ ledgerAtStart # {}
    /\ Len(rows) = 2
    /\ Len(picks) = 1
    /\ \E i \in fetchedItems : PidOf(Catalog[i]) \notin load_seen(ledgerFile)
    /\ \A i \in 1..Len(rows) : rows[i].pid \in load_seen(ledgerFile)

====
